---- MODULE Spec2Model ----
(***************************************************************************)
(* Model of the HMLasso estimator (src/HMLasso.py): the estimator object,  *)
(* its fit / predict lifecycle, the parameter imputer and the PSD repair.  *)
(*                                                                         *)
(* Representation.  A feature matrix is a sequence of rows, each a         *)
(* sequence of entries; an entry is NaN (the missing marker) or Num(v)     *)
(* with v an integer counted in units of the centering tolerance.  A       *)
(* nullable attribute is None or Some(v).  A quotient of two integers is   *)
(* kept exactly as the pair <<numerator, denominator>>.                    *)
(* The convex solver is external: each solve is a choice of a status and   *)
(* of a returned value among bounded candidates.                           *)
(***************************************************************************)
EXTENDS Integers, Sequences, FiniteSets, TLC

VARIABLES est, ERRORS_HANDLING, fitP, call

vars == <<est, ERRORS_HANDLING, fitP, call>>

----------------------------------------------------------------------------
(* Bounds *)

MaxRows == 2
MaxAlpha == 2
MaxSigma == 3

Dims == {1, 2}

----------------------------------------------------------------------------
(* Values *)

None == <<>>
Some(v) == <<v>>
NaN == <<>>
Num(v) == <<v>>

Abs(v) == IF v < 0 THEN 0 - v ELSE v

RECURSIVE SumTo(_, _)
SumTo(f, k) == IF k = 0 THEN 0 ELSE f[k] + SumTo(f, k - 1)

RECURSIVE Pow(_, _)
Pow(b, e) == IF e = 0 THEN 1 ELSE b * Pow(b, e - 1)

Rows(X) == Len(X)
Cols(X) == Len(X[1])

Matrices(n, p, E) == [1..n -> [1..p -> E]]

----------------------------------------------------------------------------
(* Parameter imputer *)

nan_to_num(X) ==
  [k \in 1..Rows(X) |-> [i \in 1..Cols(X) |->
      IF X[k][i] = NaN THEN 0 ELSE X[k][i][1]]]

Indicator(Z) ==
  [k \in 1..Len(Z) |-> [i \in 1..Len(Z[1]) |-> IF Z[k][i] # 0 THEN 1 ELSE 0]]

\* np.dot(A.T, B) for two matrices with the same number of rows
DotTT(A, B) ==
  [i \in 1..Len(A[1]) |-> [j \in 1..Len(B[1]) |->
      SumTo([k \in 1..Len(A) |-> A[k][i] * B[k][j]], Len(A))]]

\* np.dot(A.T, v) for a matrix and a vector with as many entries as rows
DotTv(A, v) ==
  [i \in 1..Len(A[1]) |-> SumTo([k \in 1..Len(A) |-> A[k][i] * v[k]], Len(A))]

ObservationCount(X) ==
  LET Z == nan_to_num(X)
      Y == Indicator(Z)
  IN  DotTT(Y, Y)

\* np.divide(a, b, out=zeros, where=(b != 0)) on one entry
DivideWhere(a, b) == IF b # 0 THEN <<a, b>> ELSE <<0, 1>>

ImputeParamsNoPower(self, X, y) ==
  LET Z == nan_to_num(X)
      R == ObservationCount(X)
      p == self.p[1]
      n == self.n[1]
  IN  [ rho_pair |-> [i \in 1..p |-> DivideWhere(DotTv(Z, y)[i], R[i][i])],
        S_pair   |-> [i \in 1..p |-> [j \in 1..p |->
                        DivideWhere(DotTT(Z, Z)[i][j], R[i][j])]],
        R        |-> [i \in 1..p |-> [j \in 1..p |-> <<R[i][j], n>>]] ]

ImputeParams(self, X, y) ==
  LET Z == nan_to_num(X)
      R == ObservationCount(X)
      p == self.p[1]
      n == self.n[1]
  IN  [ rho_pair |-> [i \in 1..p |-> DivideWhere(DotTv(Z, y)[i], R[i][i])],
        S_pair   |-> [i \in 1..p |-> [j \in 1..p |->
                        DivideWhere(DotTT(Z, Z)[i][j], R[i][j])]],
        R        |-> [i \in 1..p |-> [j \in 1..p |->
                        <<Pow(R[i][j], self.alpha), Pow(n, self.alpha)>>]] ]

----------------------------------------------------------------------------
(* PSD repair *)

Isqrt(d) == CHOOSE s \in 0..d : s * s <= d /\ d < (s + 1) * (s + 1)

Discriminant(m) ==
  (m[1][1] - m[2][2]) * (m[1][1] - m[2][2]) + 4 * m[1][2] * m[2][1]

\* the matrices whose spectrum is computed exactly below
ExactSpectrum(m) ==
  Len(m) = 2 => /\ Discriminant(m) >= 0
                /\ Isqrt(Discriminant(m)) * Isqrt(Discriminant(m)) = Discriminant(m)

\* np.linalg.eig(m)[0], for dimension 1 and 2
Eigenvalues(m) ==
  IF Len(m) = 1 THEN << m[1][1] >>
  ELSE LET t == m[1][1] + m[2][2]
           s == Isqrt(Discriminant(m))
       IN  << (t - s) \div 2, (t + s) \div 2 >>

Min(s) == CHOOSE v \in {s[i] : i \in 1..Len(s)} :
             \A w \in {s[i] : i \in 1..Len(s)} : v <= w

Eye(p) == [i \in 1..p |-> [j \in 1..p |-> IF i = j THEN 1 ELSE 0]]

RepairNoShift(Sigma, p) == Sigma

Repair(Sigma, p) ==
  LET min_eigenvalue == Min(Eigenvalues(Sigma))
  IN  IF min_eigenvalue < 0
      THEN [i \in 1..Len(Sigma) |-> [j \in 1..Len(Sigma) |->
              Sigma[i][j] - min_eigenvalue * Eye(p)[i][j]]]
      ELSE Sigma

----------------------------------------------------------------------------
(* The estimator *)

\* tolerance=1e-8 of __verify_centering__; entries are counted in this unit
Tolerance == 1

HMLasso(mu, alpha) ==
  [ mu |-> mu, alpha |-> alpha,
    n |-> None, p |-> None,
    S_pair |-> None, rho_pair |-> None, R |-> None,
    Sigma_opt |-> None, beta_opt |-> None,
    isFirstProblemSolved |-> FALSE,
    isSecondProblemSolved |-> FALSE,
    isFitted |-> FALSE ]

\* X[:, col].mean() is not-a-number as soon as one entry of the column is
HasNan(X, col) == \E k \in 1..Rows(X) : X[k][col] = NaN

ColumnSum(X, col) == SumTo([k \in 1..Rows(X) |-> nan_to_num(X)[k][col]], Rows(X))

\* abs(current_mean) > tolerance; a comparison with not-a-number is False
ExceedsFirstOnly(X, col) ==
  col = 1 /\ ~HasNan(X, col) /\ Abs(ColumnSum(X, col)) > Tolerance * Rows(X)

Exceeds(X, col) ==
  ~HasNan(X, col) /\ Abs(ColumnSum(X, col)) > Tolerance * Rows(X)

\* the column __verify_centering__ raises on (counted from 1; the message
\* of the code counts from 0), None when it returns
verify_centering(self, X) ==
  LET bad == {col \in 1..self.p[1] : Exceeds(X, col)}
  IN  IF bad = {} THEN None
      ELSE Some(CHOOSE col \in bad : \A c \in bad : col <= c)

Outcome(self, exc, col, st1, st2) ==
  [ self |-> self, exc |-> exc, col |-> col, st1 |-> st1, st2 |-> st2 ]

\* self.n, self.p = X.shape
SetShape(self, X) ==
  [self EXCEPT !.n = Some(Rows(X)), !.p = Some(Cols(X))]

\* self.S_pair, self.rho_pair, self.R = ...
StoreParamsKeepOld(self, imp) ==
  [self EXCEPT !.S_pair = Some(imp.S_pair),
               !.rho_pair = IF self.rho_pair = None THEN Some(imp.rho_pair)
                            ELSE self.rho_pair,
               !.R = Some(imp.R)]

StoreParams(self, imp) ==
  [self EXCEPT !.S_pair = Some(imp.S_pair),
               !.rho_pair = Some(imp.rho_pair),
               !.R = Some(imp.R)]

\* self.beta_opt = self.__solve_second_problem__(); self.isFitted = True
fit_second(self, st1, o2) ==
  IF o2.status = "error"
  THEN Outcome(self, "SolverError", None, st1, "error")
  ELSE Outcome([self EXCEPT !.isSecondProblemSolved = TRUE,
                            !.beta_opt = o2.value,
                            !.isFitted = TRUE],
               "none", None, st1, o2.status)

\* the eigenvalue check, the shift, np.real and the psd_wrap of fit
fit_repair(self, st1, o2, flag) ==
  IF self.Sigma_opt = None
  THEN Outcome(self, "LinAlgError", None, st1, "notrun")
  ELSE fit_second(
         [self EXCEPT !.Sigma_opt =
             Some([wrapped |-> (flag = "ignore"),
                   m |-> Repair(self.Sigma_opt[1].m, self.p[1])])],
         st1, o2)

\* self.Sigma_opt = self.__solve_first_problem__(); its assertions hold,
\* S_pair, rho_pair and R having just been stored.  A solve that raises
\* leaves isFirstProblemSolved alone; one without a value returns None.
fit_first(self, o1, o2, flag) ==
  IF o1.status = "error"
  THEN Outcome(self, "SolverError", None, "error", "notrun")
  ELSE fit_repair(
         [self EXCEPT !.isFirstProblemSolved = TRUE,
                      !.Sigma_opt = IF o1.value = None THEN None
                                    ELSE Some([wrapped |-> FALSE, m |-> o1.value[1]])],
         o1.status, o2, flag)

\* self.__verify_centering__(X), then the imputation
fit_verify(self, X, y, o1, o2, flag, bad) ==
  IF bad # None
  THEN Outcome(self, "Exception", bad, "notrun", "notrun")
  ELSE fit_first(StoreParams(self, ImputeParams(self, X, y)), o1, o2, flag)

fit_shape(self, X, y, o1, o2, flag) ==
  fit_verify(self, X, y, o1, o2, flag, verify_centering(self, X))

\* fit(X, y): o1 and o2 are what the two solves do, flag is ERRORS_HANDLING
fit(self, X, y, o1, o2, flag) ==
  IF Rows(X) # Len(y)
  THEN Outcome(self, "AssertionError", None, "notrun", "notrun")
  ELSE fit_shape(SetShape(self, X), X, y, o1, o2, flag)

\* np.dot(X, beta_opt)
Dot(X, beta) ==
  [k \in 1..Rows(X) |-> SumTo([i \in 1..Cols(X) |-> X[k][i][1] * beta[i]], Cols(X))]

predictNoFittedCheck(self, X) ==
  IF Some(Cols(X)) # self.p
  THEN [exc |-> "AssertionError", value |-> None]
  ELSE IF \E col \in 1..Cols(X) : HasNan(X, col)
  THEN [exc |-> "AssertionError", value |-> None]
  ELSE IF self.beta_opt = None
  THEN [exc |-> "TypeError", value |-> None]
  ELSE IF Len(self.beta_opt[1]) # Cols(X)
  THEN [exc |-> "ValueError", value |-> None]
  ELSE [exc |-> "none", value |-> Some(Dot(X, self.beta_opt[1]))]

predict(self, X) ==
  IF ~self.isFitted
  THEN [exc |-> "AssertionError", value |-> None]
  ELSE IF Some(Cols(X)) # self.p
  THEN [exc |-> "AssertionError", value |-> None]
  ELSE IF \E col \in 1..Cols(X) : HasNan(X, col)
  THEN [exc |-> "AssertionError", value |-> None]
  ELSE IF self.beta_opt = None
  THEN [exc |-> "TypeError", value |-> None]
  ELSE IF Len(self.beta_opt[1]) # Cols(X)
  THEN [exc |-> "ValueError", value |-> None]
  ELSE [exc |-> "none", value |-> Some(Dot(X, self.beta_opt[1]))]

----------------------------------------------------------------------------
(* Inputs *)

Alphas == 0..MaxAlpha
Mus == {1}

FitXs ==      Matrices(2, 1, {Num(1), Num(2)})
         \cup Matrices(1, 2, {Num(1), Num(2), NaN})
FitYs == {<<1>>, <<1, 1>>}

PredictEntries == {Num(1), NaN}
PredictXs == UNION {Matrices(1, p, PredictEntries) : p \in Dims}

SymMatrices(p, E) ==
  {m \in Matrices(p, p, E) :
      /\ \A i, j \in 1..p : m[i][j] = m[j][i]
      /\ ExactSpectrum(m)}

FitSigmas(p) == {[i \in 1..p |-> [j \in 1..p |-> 0 - 1]]}
FitBetas(p) == [1..p -> {1}]

NotRun == [status |-> "notrun", value |-> None]

SolveOutcomes(values) ==
     [status : {"error", "infeasible"}, value : {None}]
  \cup [status : {"optimal", "optimal_inaccurate"}, value : {Some(v) : v \in values}]

\* what the covariance solve of fit(X, y) can do, when fit gets to it
FirstOutcomes(X, y) ==
  IF Rows(X) # Len(y) \/ \E col \in 1..Cols(X) : Exceeds(X, col)
  THEN {NotRun}
  ELSE SolveOutcomes(FitSigmas(Cols(X)))

\* what the coefficient solve can do, when fit gets to it
SecondOutcomes(X, o1) ==
  IF o1.value = None THEN {NotRun} ELSE SolveOutcomes(FitBetas(Cols(X)))

ImputeEntries == {Num(0 - 1), Num(0), Num(1), NaN}
ImputeXs == UNION {Matrices(n, p, ImputeEntries) : n \in 1..MaxRows, p \in Dims}
ImputeYs(n) == [1..n -> {0 - 1, 1}]

RepairSigmas == UNION {SymMatrices(p, (0 - MaxSigma)..MaxSigma) : p \in Dims}

----------------------------------------------------------------------------
(* State machine *)

NoCall ==
  [ op |-> "none", X |-> None, y |-> None, o1 |-> None, o2 |-> None,
    flag |-> "raise", prevFitP |-> None,
    exc |-> "none", col |-> None, value |-> None,
    st1 |-> "notrun", st2 |-> "notrun" ]

Init ==
  /\ est = HMLasso(1, 1)
  /\ ERRORS_HANDLING \in {"raise", "ignore"}
  /\ fitP = None
  /\ call = NoCall

Fit ==
  \E X \in FitXs, y \in FitYs :
  \E o1 \in FirstOutcomes(X, y) : \E o2 \in SecondOutcomes(X, o1) :
    \E r \in {fit(est, X, y, o1, o2, ERRORS_HANDLING)} :
        /\ est' = r.self
        /\ fitP' = IF r.exc = "none" THEN Some(Cols(X)) ELSE fitP
        /\ call' = [NoCall EXCEPT !.op = "fit", !.X = Some(X), !.y = Some(y),
                       !.o1 = Some(o1), !.o2 = Some(o2),
                       !.flag = ERRORS_HANDLING, !.prevFitP = fitP,
                       !.exc = r.exc, !.col = r.col,
                       !.st1 = r.st1, !.st2 = r.st2]
        /\ UNCHANGED ERRORS_HANDLING

Predict ==
  \E X \in PredictXs :
    \E r \in {predict(est, X)} :
        /\ call' = [NoCall EXCEPT !.op = "predict", !.X = Some(X),
                       !.flag = ERRORS_HANDLING, !.prevFitP = fitP,
                       !.exc = r.exc, !.value = r.value]
        /\ UNCHANGED <<est, ERRORS_HANDLING, fitP>>

Next == Fit \/ Predict

Spec == Init /\ [][Next]_vars

----------------------------------------------------------------------------
(* The parameter imputer alone: Init draws X, y and alpha, Impute applies  *)
(* __impute_params__ as fit calls it, right after self.n, self.p are set.  *)

InitImpute ==
  /\ est \in {HMLasso(mu, alpha) : mu \in Mus, alpha \in Alphas}
  /\ ERRORS_HANDLING = "raise"
  /\ fitP = None
  /\ call \in {[NoCall EXCEPT !.op = "impute_args", !.X = Some(X), !.y = Some(y)] :
                  X \in ImputeXs, y \in UNION {ImputeYs(n) : n \in 1..MaxRows}}
  /\ Rows(call.X[1]) = Len(call.y[1])

Impute ==
  /\ call.op = "impute_args"
  /\ \E r \in {ImputeParams(SetShape(est, call.X[1]), call.X[1], call.y[1])} :
       call' = [call EXCEPT !.op = "impute",
                   !.value = Some([R_raw |-> ObservationCount(call.X[1]),
                                   S_pair |-> r.S_pair,
                                   rho_pair |-> r.rho_pair,
                                   R |-> r.R])]
  /\ UNCHANGED <<est, ERRORS_HANDLING, fitP>>

NextImpute == Impute

SpecImpute == InitImpute /\ [][NextImpute]_vars

----------------------------------------------------------------------------
(* The PSD repair alone: Init draws the matrix the covariance solve        *)
(* returned, RepairStep applies lines 173-181 of fit to it.                *)

InitRepair ==
  /\ est \in {HMLasso(mu, alpha) : mu \in Mus, alpha \in Alphas}
  /\ ERRORS_HANDLING = "raise"
  /\ fitP = None
  /\ call \in {[NoCall EXCEPT !.op = "repair_args", !.X = Some(m)] : m \in RepairSigmas}

RepairStep ==
  /\ call.op = "repair_args"
  /\ call' = [call EXCEPT !.op = "repair",
                 !.value = Some(Repair(call.X[1], Len(call.X[1])))]
  /\ UNCHANGED <<est, ERRORS_HANDLING, fitP>>

NextRepair == RepairStep

SpecRepair == InitRepair /\ [][NextRepair]_vars

----------------------------------------------------------------------------
(* Claims about the parameter imputer (under SpecImpute) *)

\* rows of X in which features i and j are both non-missing
JointPresent(X, i, j) ==
  Cardinality({k \in 1..Rows(X) : X[k][i] # NaN /\ X[k][j] # NaN})

NoMissing(X) == \A k \in 1..Rows(X), i \in 1..Cols(X) : X[k][i] # NaN

\* C7: for every feature matrix (entries real, possibly exactly 0, or
\* missing) the observation-count matrix has entry (i,j) equal to the number
\* of rows in which features i and j are both non-missing.
C7_ObservationCount ==
  call.op = "impute" =>
    \A i, j \in 1..Cols(call.X[1]) :
       call.value[1].R_raw[i][j] = JointPresent(call.X[1], i, j)

\* C8: for every X without missing entries and every y, S_pair = (1/n) X'X
\* and rho_pair = (1/n) X'y.
C8_CompleteData ==
  (call.op = "impute" /\ NoMissing(call.X[1])) =>
    LET X == call.X[1]
        y == call.y[1]
        n == Rows(X)
        v == call.value[1]
    IN  /\ \A i, j \in 1..Cols(X) :
             v.S_pair[i][j][1] * n =
               v.S_pair[i][j][2] *
                 SumTo([k \in 1..n |-> X[k][i][1] * X[k][j][1]], n)
        /\ \A i \in 1..Cols(X) :
             v.rho_pair[i][1] * n =
               v.rho_pair[i][2] * SumTo([k \in 1..n |-> X[k][i][1] * y[k]], n)

ZeroOverlap(i, j) ==
  /\ call.op = "impute"
  /\ i \in 1..Cols(call.X[1])
  /\ j \in 1..Cols(call.X[1])
  /\ JointPresent(call.X[1], i, j) = 0

\* C10 as stated: for every alpha >= 0, alpha = 0 included, a pair with
\* zero joint non-missing count gets R[i,j] = 0 and S_pair[i,j] = 0.
C10_Original ==
  \A i, j \in Dims :
     ZeroOverlap(i, j) =>
        /\ call.value[1].R[i][j][1] = 0
        /\ call.value[1].S_pair[i][j][1] = 0

\* C10 amended: with at least one row in X, such a pair gets S_pair[i,j] = 0
\* for every alpha >= 0, and R[i,j] = 0 for alpha > 0, R[i,j] = 1 for
\* alpha = 0.
C10_ZeroOverlap ==
  \A i, j \in Dims :
     ZeroOverlap(i, j) =>
        /\ call.value[1].S_pair[i][j][1] = 0
        /\ est.alpha > 0 => call.value[1].R[i][j][1] = 0
        /\ est.alpha = 0 =>
              call.value[1].R[i][j][1] = call.value[1].R[i][j][2]

C10_Witness ==
  \E i, j \in Dims : ZeroOverlap(i, j) /\ i # j /\ est.alpha = 0
                       /\ JointPresent(call.X[1], i, i) > 0

----------------------------------------------------------------------------
(* Claims about the PSD repair (under SpecRepair) *)

Symmetric(m) == \A i, j \in 1..Len(m) : m[i][j] = m[j][i]

\* C9: whatever matrix the covariance solve returned, the matrix stored
\* after the repair step is symmetric with no negative eigenvalue.
C9_RepairedIsPSD ==
  call.op = "repair" =>
     /\ Symmetric(call.value[1])
     /\ \A i \in 1..Len(call.value[1]) : Eigenvalues(call.value[1])[i] >= 0

C9_Witness ==
  /\ call.op = "repair"
  /\ Len(call.X[1]) = 2
  /\ call.X[1][1][2] # 0
  /\ Min(Eigenvalues(call.X[1])) < 0
  /\ call.value[1] # call.X[1]

----------------------------------------------------------------------------
(* Claims about the estimator lifecycle (under Spec).  fitP is None until  *)
(* a fit call has returned normally, then the feature count of the last    *)
(* fit call that did; call.prevFitP is its value when the call was made.   *)

AssertionFailed == call.exc = "AssertionError" /\ call.value = None

\* C1: on an estimator on which no fit call has completed (fresh, or after
\* fit calls that all failed) predict fails with a precondition error and
\* returns no value.
C1_PredictBeforeFit ==
  (call.op = "predict" /\ call.prevFitP = None) => AssertionFailed

C1_Witness ==
  /\ call.op = "predict"
  /\ call.prevFitP = None
  /\ est.p = Some(Cols(call.X[1]))
  /\ est.R # None
  /\ \A col \in 1..Cols(call.X[1]) : ~HasNan(call.X[1], col)
  /\ AssertionFailed

\* C2: after any sequence of fit calls, predict(X) returns a value only
\* when X has the feature count of the last completed fit, and rejects any
\* other column count with a precondition error.
C2_PredictFeatureCount ==
  (call.op = "predict" /\ call.prevFitP # None) =>
     /\ call.value # None => Some(Cols(call.X[1])) = call.prevFitP
     /\ Some(Cols(call.X[1])) # call.prevFitP => AssertionFailed

NonOptimal == {"optimal_inaccurate", "infeasible", "error"}

\* C3: with ERRORS_HANDLING = "raise", a fit in which the covariance solve
\* or the coefficient solve reports a non-optimal status fails with an
\* error and the estimator does not become fitted by it.
C3_NonOptimalFailsFit ==
  (/\ call.op = "fit"
   /\ call.flag = "raise"
   /\ (call.st1 \in NonOptimal \/ call.st2 \in NonOptimal)) =>
     /\ call.exc # "none"
     /\ fitP = call.prevFitP

AllNull(self) ==
  /\ self.R = None /\ self.S_pair = None /\ self.rho_pair = None
  /\ self.Sigma_opt = None /\ self.beta_opt = None

AllSet(self) ==
  /\ self.R # None /\ self.S_pair # None /\ self.rho_pair # None
  /\ self.Sigma_opt # None /\ self.beta_opt # None

\* C4: between calls R, S_pair, rho_pair, Sigma_opt and beta_opt are all
\* null while no fit call has completed and all non-null once one has.
C4_AllOrNothing ==
  /\ fitP = None => AllNull(est)
  /\ fitP # None => AllSet(est)

Derived(self) ==
  << self.n, self.p, self.S_pair, self.rho_pair, self.R,
     self.Sigma_opt, self.beta_opt >>

Refit ==
  /\ call.op = "fit"
  /\ call.exc = "none"
  /\ call.prevFitP # None
  /\ call.prevFitP # Some(Cols(call.X[1]))

\* C5: when fit(X2, y2) completes on an estimator that was fitted with a
\* different feature count, n, p, S_pair, rho_pair, R, Sigma_opt and
\* beta_opt are those of a fresh estimator with the same hyperparameters
\* fitted on (X2, y2) alone, the solver answering alike.
C5_RefitLeavesNoResidue ==
  Refit =>
    Derived(est) =
      Derived(fit(HMLasso(est.mu, est.alpha), call.X[1], call.y[1],
                  call.o1[1], call.o2[1], call.flag).self)

C5_Witness ==
  /\ Refit
  /\ call.prevFitP = Some(1)
  /\ est.beta_opt # None
  /\ \E i \in 1..2 : est.rho_pair[1][i][1] # 0

\* the mean of column col of X, a number, exceeds the tolerance in
\* absolute value
MeanExceedsTolerance(X, col) ==
  /\ \A k \in 1..Rows(X) : X[k][col] # NaN
  /\ Abs(SumTo([k \in 1..Rows(X) |-> X[k][col][1]], Rows(X))) > Tolerance * Rows(X)

NotCentered ==
  /\ call.op = "fit"
  /\ Rows(call.X[1]) = Len(call.y[1])
  /\ \E col \in 1..Cols(call.X[1]) : MeanExceedsTolerance(call.X[1], col)

CenteringViolation ==
  /\ call.exc = "Exception"
  /\ call.col # None
  /\ MeanExceedsTolerance(call.X[1], call.col[1])
  /\ call.st1 = "notrun"
  /\ call.st2 = "notrun"

====
